---- MODULE Spec2Model ----
(***************************************************************************)
(* Token authentication layer of the student-management backend:           *)
(* backend/src/middleware/auth.rs (issue, verify, refresh, the two access  *)
(* gates), backend/src/error.rs (the error envelope) and the jwt part of   *)
(* backend/src/config.rs.                                                  *)
(*                                                                         *)
(* Time is in whole seconds, as the Unix timestamps of the Claims are.     *)
(* A token string is modelled by its structure: the number of              *)
(* dot-separated segments, the header segment, the claims segment and the  *)
(* HMAC the signature segment holds.  jsonwebtoken's decode is modelled    *)
(* step by step in the order the library performs its checks.              *)
(***************************************************************************)
EXTENDS Integers, Sequences, FiniteSets, TLC

VARIABLES now, config, issued, lineage, last

vars == <<now, config, issued, lineage, last>>

----------------------------------------------------------------------------
(* Bounds of the model *)

\* how many refreshes a run follows (the length of a chain of refreshed tokens)
MaxRefreshes == 2

\* the clock value of the initial state (seconds since the Unix epoch)
StartTime == 1000

\* the number of bits of a machine word: the 64-bit integers of the source
\* (u64, i64) are modelled with this width, with the same wrap-around
Width == 24

----------------------------------------------------------------------------
(* Program constants *)

\* Validation::default() of jsonwebtoken: leeway of 60 seconds on exp
Leeway == 60

\* the refresh window of verify_token_for_refresh: 30 * 60 seconds
RefreshWindow == 30 * 60

\* Config::default().jwt.secret
Secret == "default_secret_key_change_in_production"

\* a key that is not the configured secret (a token signed by someone else)
OtherKey == "some_other_key"

\* jwt.expiration (minutes) values a deployment is configured with:
\* Config::default() gives 60; config.toml may give any u64, 0 included
ExpirationChoices == {0, 60}

\* A configuration is the jwt section of Config (secret, expiration) together
\* with overflow_checks: whether the build the process runs checks the
\* multiplication inside Duration::minutes (it matters for huge lifetimes only).

\* Uuid::to_string: the textual form of a user id (Uuid keys abstracted to 1, 2)
UuidToString(id) == IF id = 1 THEN "uuid-1" ELSE "uuid-2"

\* The rows User::login can return (id, username, role).  The user store is
\* an external collaborator: user 2 is a student at one time and an admin at
\* another (User::update changes the role column).
UserRows ==
    { [id |-> 1, username |-> "alice", role |-> "teacher"],
      [id |-> 2, username |-> "bob", role |-> "student"],
      [id |-> 2, username |-> "bob", role |-> "admin"] }

----------------------------------------------------------------------------
(* Claims, tokens, errors *)

NoClaims == [sub |-> "", username |-> "", role |-> "", exp |-> 0, iat |-> 0]

\* Header::default(): {"typ":"JWT","alg":"HS256"}; parse = the segment is
\* base64 of a JSON header object
DefaultHeader == [parse |-> TRUE, typ |-> "JWT", alg |-> "HS256"]

GarbledHeader == [parse |-> FALSE, typ |-> "", alg |-> ""]

\* the claims segment: parse = it is base64 of a JSON Claims object
ClaimsSegment(c) == [parse |-> TRUE, claims |-> c]

GarbledSegment == [parse |-> FALSE, claims |-> NoClaims]

\* HMAC-SHA256 over "header.payload" under a key, taken to be collision free
HmacSha256(key, hdr, body) == [key |-> key, hdr |-> hdr, body |-> body]

NoSig == HmacSha256("", GarbledHeader, GarbledSegment)

\* a string that is no three-segment token (no dots at all), e.g. "" or "xyz"
OpaqueToken == [segs |-> 1, hdr |-> GarbledHeader, body |-> GarbledSegment,
                sig |-> NoSig]

NoErr == [types |-> "", msg |-> ""]

\* AppError::new_message(msg, types) and AppError::new(cause, types): the
\* message is the cause's Display text
AppError(msg, types) == [types |-> types, msg |-> msg]

\* The texts of the source's messages, which are Chinese, by what they say:
\*   "TokenExpired"        auth.rs:88   token has expired
\*   "BadSignature"        auth.rs:91   invalid token signature
\*   "RefreshWindowOver"   auth.rs:131  expired and beyond the refresh window
\*   "BadAuthHeader"       auth.rs:212  invalid authorization header format
\*   "AuthRequired"        auth.rs:219  authentication required
\*   "AdminRequired"       auth.rs:261  administrator privilege required

\* jsonwebtoken::encode(&Header::default(), &claims, &EncodingKey::from_secret(key))
encode(claims, key) ==
    [segs |-> 3,
     hdr  |-> DefaultHeader,
     body |-> ClaimsSegment(claims),
     sig  |-> HmacSha256(key, DefaultHeader, ClaimsSegment(claims))]

\* jsonwebtoken::decode::<Claims>(token, &DecodingKey::from_secret(key), &validation)
\* at clock t.  The checks in the library's order: split into three segments,
\* decode the header, its algorithm against Validation.algorithms (HS256),
\* the signature over the first two segments, then the claims segment, then
\* exp against the clock with the leeway.
DecodeOk(c) == [kind |-> "Ok", claims |-> c]
DecodeErr(k) == [kind |-> k, claims |-> NoClaims]

\* decode with the signature check switched off
decode_no_signature(token, key, validate_exp, t) ==
    IF token.segs < 3 THEN DecodeErr("InvalidToken")
    ELSE IF token.segs > 3 \/ ~token.hdr.parse THEN DecodeErr("Base64")
    ELSE IF token.hdr.alg # "HS256" THEN DecodeErr("InvalidAlgorithm")
    ELSE IF ~token.body.parse THEN DecodeErr("Json")
    ELSE IF validate_exp /\ token.body.claims.exp < t - Leeway
         THEN DecodeErr("ExpiredSignature")
    ELSE DecodeOk(token.body.claims)

decode(token, key, validate_exp, t) ==
    IF token.segs < 3 THEN DecodeErr("InvalidToken")
    ELSE IF token.segs > 3 \/ ~token.hdr.parse THEN DecodeErr("Base64")
    ELSE IF token.hdr.alg # "HS256" THEN DecodeErr("InvalidAlgorithm")
    ELSE IF token.sig # HmacSha256(key, token.hdr, token.body)
         THEN DecodeErr("InvalidSignature")
    ELSE IF ~token.body.parse THEN DecodeErr("Json")
    ELSE IF validate_exp /\ token.body.claims.exp < t - Leeway
         THEN DecodeErr("ExpiredSignature")
    ELSE DecodeOk(token.body.claims)

ClaimsOk(c) == [ok |-> TRUE, claims |-> c, err |-> NoErr]
ClaimsFail(e) == [ok |-> FALSE, claims |-> NoClaims, err |-> e]

NoToken == [segs |-> 0, hdr |-> GarbledHeader, body |-> GarbledSegment,
            sig |-> NoSig]

TokenOk(tok) == [ok |-> TRUE, token |-> tok, err |-> NoErr]
TokenFail(e) == [ok |-> FALSE, token |-> NoToken, err |-> e]

----------------------------------------------------------------------------
(* Machine arithmetic of the time computations *)

\* "as u64" of a signed value: two's complement, modulo 2^Width
AsU64(i) == i % (2 ^ Width)

\* "as i64" of an unsigned value
AsI64(u) == IF u >= 2 ^ (Width - 1) THEN u - 2 ^ Width ELSE u

\* the value is an i64
InI64(i) == -(2 ^ (Width - 1)) <= i /\ i < 2 ^ (Width - 1)

\* the largest Unix timestamp an OffsetDateTime holds (year 9999), in the
\* proportion of the word width: well below the largest i64
MaxUnixTimestamp == 2 ^ (Width - 3)

\* Duration::minutes(m): m * 60 seconds; a product outside i64 panics where
\* the multiplication is checked and wraps where it is not
Duration_minutes(m, checks) ==
    LET s == 60 * m
    IN  IF InI64(s) THEN [ok |-> TRUE, secs |-> s]
        ELSE IF checks THEN [ok |-> FALSE, secs |-> 0]
        ELSE [ok |-> TRUE, secs |-> AsI64(AsU64(s))]

\* (now + Duration::minutes(expiration as i64)).unix_timestamp() as u64;
\* the addition panics when the date leaves the range of OffsetDateTime
expires_at(t, expiration, checks) ==
    LET d == Duration_minutes(AsI64(expiration), checks)
    IN  IF ~d.ok THEN [ok |-> FALSE, exp |-> 0]
        ELSE IF t + d.secs > MaxUnixTimestamp \/ t + d.secs < -MaxUnixTimestamp
             THEN [ok |-> FALSE, exp |-> 0]
        ELSE [ok |-> TRUE, exp |-> AsU64(t + d.secs)]

\* a panic of the thread that serves the request, as a result value
Panic == AppError("panic", "Panic")

----------------------------------------------------------------------------
(* auth.rs: issue, verify, refresh *)

\* generate_token with the role not taken from the user (every token a student's)
generate_token_default_role(user, cfg, t) ==
    TokenOk(encode([sub |-> UuidToString(user.id), username |-> user.username,
                    role |-> "student", exp |-> t + 60 * cfg.expiration,
                    iat |-> t], cfg.secret))

\* generate_token(user) at clock t under configuration cfg
generate_token(user, cfg, t) ==
    LET iat == AsU64(t)
        e == expires_at(t, cfg.expiration, cfg.overflow_checks)
        claims == [sub |-> UuidToString(user.id),
                   username |-> user.username,
                   role |-> user.role,
                   exp |-> e.exp,
                   iat |-> iat]
    IN  IF e.ok THEN TokenOk(encode(claims, cfg.secret)) ELSE TokenFail(Panic)

\* verify_token(token) at clock t
verify_token(token, cfg, t) ==
    LET d == decode(token, cfg.secret, TRUE, t)
    IN  IF d.kind = "Ok" THEN ClaimsOk(d.claims)
        ELSE IF d.kind = "ExpiredSignature"
             THEN ClaimsFail(AppError("TokenExpired", "Forbidden"))
        ELSE IF d.kind = "InvalidSignature"
             THEN ClaimsFail(AppError("BadSignature", "Forbidden"))
        ELSE ClaimsFail(AppError(d.kind, "Crypt"))

\* verify_token_for_refresh that leaves validate_exp switched on
verify_token_for_refresh_strict(token, cfg, t) ==
    LET d == decode(token, cfg.secret, TRUE, t)
    IN  IF d.kind = "InvalidSignature"
             THEN ClaimsFail(AppError("BadSignature", "Forbidden"))
        ELSE IF d.kind # "Ok" THEN ClaimsFail(AppError(d.kind, "Crypt"))
        ELSE IF d.claims.exp < t /\ t - d.claims.exp > RefreshWindow
             THEN ClaimsFail(AppError("RefreshWindowOver", "Forbidden"))
        ELSE ClaimsOk(d.claims)

\* verify_token_for_refresh without the refresh window check
verify_token_for_refresh_no_window(token, cfg, t) ==
    LET d == decode(token, cfg.secret, FALSE, t)
    IN  IF d.kind = "InvalidSignature"
             THEN ClaimsFail(AppError("BadSignature", "Forbidden"))
        ELSE IF d.kind # "Ok" THEN ClaimsFail(AppError(d.kind, "Crypt"))
        ELSE ClaimsOk(d.claims)

\* verify_token_for_refresh that takes expired tokens only
verify_token_for_refresh_expired_only(token, cfg, t) ==
    LET d == decode(token, cfg.secret, FALSE, t)
    IN  IF d.kind = "InvalidSignature"
             THEN ClaimsFail(AppError("BadSignature", "Forbidden"))
        ELSE IF d.kind # "Ok" THEN ClaimsFail(AppError(d.kind, "Crypt"))
        ELSE IF d.claims.exp >= t \/ t - d.claims.exp > RefreshWindow
             THEN ClaimsFail(AppError("RefreshWindowOver", "Forbidden"))
        ELSE ClaimsOk(d.claims)

\* a - b on u64: below zero it panics where overflow is checked and wraps
\* where it is not
Sub64(a, b, checks) ==
    [panic |-> a < b /\ checks, value |-> AsU64(a - b)]

\* the subtraction done before the comparison of exp and now
beyond_window_eager(exp, t, checks) ==
    LET diff == Sub64(t, exp, checks)
    IN  [panic |-> diff.panic,
         over |-> ~diff.panic /\ exp < t /\ diff.value > RefreshWindow]

\* claims.exp < now && now - claims.exp > 30 * 60: the right operand of && is
\* evaluated only when the left one holds
beyond_window(exp, t, checks) ==
    IF exp < t
    THEN LET diff == Sub64(t, exp, checks)
         IN  [panic |-> diff.panic, over |-> ~diff.panic /\ diff.value > RefreshWindow]
    ELSE [panic |-> FALSE, over |-> FALSE]

\* verify_token_for_refresh with the subtraction done first
verify_token_for_refresh_eager(token, cfg, t) ==
    LET d == decode(token, cfg.secret, FALSE, t)
        w == beyond_window_eager(d.claims.exp, t, cfg.overflow_checks)
    IN  IF d.kind = "InvalidSignature"
             THEN ClaimsFail(AppError("BadSignature", "Forbidden"))
        ELSE IF d.kind # "Ok" THEN ClaimsFail(AppError(d.kind, "Crypt"))
        ELSE IF w.panic THEN ClaimsFail(Panic)
        ELSE IF w.over
             THEN ClaimsFail(AppError("RefreshWindowOver", "Forbidden"))
        ELSE ClaimsOk(d.claims)

\* verify_token_for_refresh(token) at clock t
verify_token_for_refresh(token, cfg, t) ==
    LET d == decode(token, cfg.secret, FALSE, t)
        w == beyond_window(d.claims.exp, t, cfg.overflow_checks)
    IN  IF d.kind = "InvalidSignature"
             THEN ClaimsFail(AppError("BadSignature", "Forbidden"))
        ELSE IF d.kind # "Ok" THEN ClaimsFail(AppError(d.kind, "Crypt"))
        ELSE IF w.panic THEN ClaimsFail(Panic)
        ELSE IF w.over
             THEN ClaimsFail(AppError("RefreshWindowOver", "Forbidden"))
        ELSE ClaimsOk(d.claims)

\* refresh_token that mints the new token with the default role
refresh_token_default_role(old_token, cfg, t) ==
    LET v == verify_token_for_refresh(old_token, cfg, t)
    IN  IF ~v.ok THEN TokenFail(v.err)
        ELSE TokenOk(encode([sub |-> v.claims.sub, username |-> v.claims.username,
                             role |-> "student", exp |-> t + 60 * cfg.expiration,
                             iat |-> t], cfg.secret))

\* refresh_token(old_token) at clock t
refresh_token(old_token, cfg, t) ==
    LET v == verify_token_for_refresh(old_token, cfg, t)
    IN  IF ~v.ok THEN TokenFail(v.err)
        ELSE LET iat == AsU64(t)
                 e == expires_at(t, cfg.expiration, cfg.overflow_checks)
                 new_claims == [sub |-> v.claims.sub,
                                username |-> v.claims.username,
                                role |-> v.claims.role,
                                exp |-> e.exp,
                                iat |-> iat]
             IN  IF e.ok THEN TokenOk(encode(new_claims, cfg.secret))
                 ELSE TokenFail(Panic)

----------------------------------------------------------------------------
(* error.rs: the response of a failure *)

NoResponse == [status |-> 0, code |-> "", error |-> "", message |-> ""]

\* StatusCode of AppError::into_response
StatusOf(types) ==
    CASE types = "Notfound" -> 404
      [] types = "Duplicate" -> 409
      [] types = "IncorrectLogin" -> 401
      [] types = "Forbidden" -> 403
      [] OTHER -> 500

\* Display of AppErrorType (the "error" field), by what the Chinese text says
ErrorLabel(types) ==
    CASE types = "Db" -> "database error"
      [] types = "Notfound" -> "resource not found"
      [] types = "Duplicate" -> "duplicate data"
      [] types = "Crypt" -> "encryption/decryption error"
      [] types = "IncorrectLogin" -> "incorrect login"
      [] types = "Forbidden" -> "insufficient permission"
      [] types = "Time" -> "time parse error"
      [] OTHER -> "internal error"

\* AppError::into_response
into_response(e) ==
    [status |-> StatusOf(e.types),
     code |-> e.types,
     error |-> ErrorLabel(e.types),
     message |-> e.msg]

----------------------------------------------------------------------------
(* The Authorization header and extract_token_from_header *)

\* A header value is a sequence of pieces: literal text, or a token string.
Lit(s) == [lit |-> s, tok |-> NoToken]
Tok(t) == [lit |-> "<token>", tok |-> t]

\* present: the request has an Authorization header; text: its bytes are
\* visible ASCII, so HeaderValue::to_str succeeds
NoHeader == [present |-> FALSE, text |-> FALSE, parts |-> <<>>]
BytesHeader == [present |-> TRUE, text |-> FALSE, parts |-> <<>>]
TextHeader(parts) == [present |-> TRUE, text |-> TRUE, parts |-> parts]

\* str::trim_start_matches("Bearer "): removes the prefix as often as it repeats
RECURSIVE TrimStartMatchesBearer(_)
TrimStartMatchesBearer(parts) ==
    IF Len(parts) > 0 /\ Head(parts) = Lit("Bearer ")
    THEN TrimStartMatchesBearer(Tail(parts))
    ELSE parts

RECURSIVE TrimStart(_)
TrimStart(parts) ==
    IF Len(parts) > 0 /\ Head(parts) = Lit(" ")
    THEN TrimStart(Tail(parts))
    ELSE parts

RECURSIVE TrimEnd(_)
TrimEnd(parts) ==
    IF Len(parts) > 0 /\ parts[Len(parts)] = Lit(" ")
    THEN TrimEnd(SubSeq(parts, 1, Len(parts) - 1))
    ELSE parts

\* str::trim
Trim(parts) == TrimEnd(TrimStart(parts))

\* the token string a piece sequence spells: one token piece is that token,
\* anything else (empty, a word, text around a token) is no three-segment token
TokenString(parts) ==
    IF Len(parts) = 1 /\ parts[1].lit = "<token>" THEN parts[1].tok
    ELSE OpaqueToken

\* extract_token_from_header(auth_header)
extract_token_from_header(parts) ==
    IF Len(parts) > 0 /\ Head(parts) = Lit("Bearer ")
    THEN [some |-> TRUE, token |-> TokenString(Trim(TrimStartMatchesBearer(parts)))]
    ELSE [some |-> FALSE, token |-> NoToken]

\* req.headers().get("Authorization").and_then(|value| value.to_str().ok())
auth_header(h) ==
    IF h.present /\ h.text THEN [some |-> TRUE, parts |-> h.parts]
    ELSE [some |-> FALSE, parts |-> <<>>]

----------------------------------------------------------------------------
(* The access gates *)

\* the outcome of a gate: the downstream handler ran with these Claims in the
\* request extensions, or the request was answered with this response
Forward(c) == [forwarded |-> TRUE, attached |-> c, response |-> NoResponse]
Reject(e) == [forwarded |-> FALSE, attached |-> NoClaims,
              response |-> into_response(e)]

\* auth_middleware that lets a request with an expired token through
auth_middleware_ignore_expiry(h, cfg, t) ==
    LET a == auth_header(h)
    IN  IF a.some
        THEN LET x == extract_token_from_header(a.parts)
             IN  IF x.some
                 THEN LET v == verify_token_for_refresh_no_window(x.token, cfg, t)
                      IN  IF v.ok THEN Forward(v.claims) ELSE Reject(v.err)
                 ELSE Reject(AppError("BadAuthHeader", "Forbidden"))
        ELSE Reject(AppError("AuthRequired", "Forbidden"))

\* auth_middleware(req, next) at clock t
auth_middleware(h, cfg, t) ==
    LET a == auth_header(h)
    IN  IF a.some
        THEN LET x == extract_token_from_header(a.parts)
             IN  IF x.some
                 THEN LET v == verify_token(x.token, cfg, t)
                      IN  IF v.ok THEN Forward(v.claims) ELSE Reject(v.err)
                 ELSE Reject(AppError("BadAuthHeader", "Forbidden"))
        ELSE Reject(AppError("AuthRequired", "Forbidden"))

\* admin_middleware without the role check
admin_middleware_no_role_check(h, cfg, t) == auth_middleware(h, cfg, t)

\* ASCII lower-casing of the role strings of the model
ToLowercase(s) ==
    CASE s = "Admin" -> "admin"
      [] s = "Teacher" -> "teacher"
      [] OTHER -> s

\* the role test done on the lower-cased role
admin_middleware_any_case(h, cfg, t) ==
    LET g == auth_middleware(h, cfg, t)
    IN  IF g.forwarded
        THEN IF ToLowercase(g.attached.role) \in {"admin", "teacher"}
             THEN g
             ELSE Reject(AppError("AdminRequired", "Forbidden"))
        ELSE g

\* the role read from the token's claims segment before the token is verified
admin_middleware_role_first(h, cfg, t) ==
    LET a == auth_header(h)
        x == extract_token_from_header(a.parts)
    IN  IF a.some /\ x.some /\ x.token.body.parse
             /\ x.token.body.claims.role \notin {"admin", "teacher"}
        THEN Reject(AppError("AdminRequired", "Forbidden"))
        ELSE auth_middleware(h, cfg, t)

\* admin_middleware(req, next) at clock t
admin_middleware(h, cfg, t) ==
    LET a == auth_header(h)
    IN  IF a.some
        THEN LET x == extract_token_from_header(a.parts)
             IN  IF x.some
                 THEN LET v == verify_token(x.token, cfg, t)
                      IN  IF v.ok
                          THEN IF v.claims.role = "admin" \/ v.claims.role = "teacher"
                               THEN Forward(v.claims)
                               ELSE Reject(AppError("AdminRequired", "Forbidden"))
                          ELSE Reject(v.err)
                 ELSE Reject(AppError("BadAuthHeader", "Forbidden"))
        ELSE Reject(AppError("AuthRequired", "Forbidden"))

\* refresh_token_handler(Json(req)): the body's token, or the error's response
refresh_token_handler(token, cfg, t) ==
    LET r == refresh_token(token, cfg, t)
    IN  IF r.ok THEN [ok |-> TRUE, token |-> r.token, response |-> NoResponse]
        ELSE IF r.err = Panic
             THEN [ok |-> FALSE, token |-> NoToken, response |-> NoResponse]
        ELSE [ok |-> FALSE, token |-> NoToken, response |-> into_response(r.err)]

----------------------------------------------------------------------------
(* What a client can present *)

\* The tokens a single changed byte of the signed part (header.payload) of
\* token t can give; the signature segment is left as it was.
\*   - a header byte, the header still a JSON header with alg HS256
\*   - a header byte, the header no longer base64 of JSON
\*   - a payload byte, the payload still a Claims object (a digit of exp)
\*   - a payload byte, the payload no longer base64 of a Claims object
\*   - a payload byte changed to '.', which makes four segments
Tampered(t) ==
    { [t EXCEPT !.hdr.typ = "JWU"],
      [t EXCEPT !.hdr = GarbledHeader],
      [t EXCEPT !.body.claims.exp = @ + 100000],
      [t EXCEPT !.body = GarbledSegment],
      [t EXCEPT !.segs = 4] }

\* a token with the claims of t raised to admin, signed with another key
Forged(t) == encode([t.body.claims EXCEPT !.role = "admin"], OtherKey)

\* every token a login or a refresh of the run has returned
Minted == issued \cup { p[1] : p \in lineage } \cup { p[2] : p \in lineage }

\* what a client sends for refresh: the token it holds, or a token made from it
Refreshable ==
    issued \cup UNION { Tampered(t) : t \in issued }
           \cup { Forged(t) : t \in issued } \cup {OpaqueToken}

\* what a client can present for verification: also the tokens it held before
Presentable == Minted \cup Refreshable

\* the Authorization headers requests carry
Headers ==
    {NoHeader, BytesHeader, TextHeader(<<Lit("Bearer")>>)}
      \cup { TextHeader(<<Lit("Bearer "), Tok(t)>>) : t \in Presentable }
      \cup { TextHeader(<<Lit("Token "), Tok(t)>>) : t \in issued }
      \cup { TextHeader(<<Lit("Bearer "), Lit(" "), Tok(t), Lit(" ")>>) : t \in issued }
      \cup { TextHeader(<<Lit("Bearer "), Lit("Bearer "), Tok(t)>>) : t \in issued }

----------------------------------------------------------------------------
(* The state machine *)

NoUser == [id |-> 0, username |-> "", role |-> ""]
\* a route of create_routes: its group, what the group's comment says it
\* requires (documented) and the middleware layered on the group (layer)
NoRoute == [group |-> "", method |-> "", path |-> "", documented |-> "", layer |-> ""]
\* LoginRequest, with the state of the database at the time of the request
NoLogin == [username_or_email |-> "", password |-> "", db_up |-> TRUE]
NoGate == [forwarded |-> FALSE, attached |-> NoClaims, response |-> NoResponse]
NoClaimsResult == [ok |-> FALSE, claims |-> NoClaims, err |-> NoErr]
NoTokenResult == [ok |-> FALSE, token |-> NoToken, err |-> NoErr]

\* the record of the request being answered: the operation, the instant, its
\* input (a user row, a header, a token) and what the operation returned
Idle == [op |-> "idle", at |-> 0, user |-> NoUser, header |-> NoHeader,
         token |-> NoToken, claims |-> NoClaimsResult,
         minted |-> NoTokenResult, gate |-> NoGate, login |-> NoLogin,
         route |-> NoRoute]

Init ==
    /\ now = StartTime
    /\ config \in { [secret |-> Secret, expiration |-> e, overflow_checks |-> TRUE] :
                        e \in ExpirationChoices }
    /\ issued = {}
    /\ lineage = {}
    /\ last = Idle

\* login_user, on the path where User::login returned the row user.  A run
\* follows one session: it starts with a login, later tokens come from refresh
\* (every operation is a function of one token, the clock and the configuration).
Login(user) ==
    /\ last = Idle
    /\ issued = {}
    /\ LET r == generate_token(user, config, now)
       IN  /\ issued' = IF r.ok THEN issued \cup {r.token} ELSE issued
           /\ last' = [Idle EXCEPT !.op = "login", !.at = now, !.user = user,
                                   !.minted = r]
    /\ UNCHANGED <<now, config, lineage>>

\* a refresh that also replaces the signing secret
Refresh_rekey(tok) ==
    /\ last = Idle
    /\ LET r == refresh_token(tok, config, now)
           h == refresh_token_handler(tok, config, now)
       IN  /\ r.ok => Cardinality(lineage \cup {<<tok, r.token>>}) <= MaxRefreshes
           /\ issued' = IF r.ok THEN (issued \ {tok}) \cup {r.token} ELSE issued
           /\ lineage' = IF r.ok THEN lineage \cup {<<tok, r.token>>} ELSE lineage
           /\ config' = IF r.ok THEN [config EXCEPT !.secret = OtherKey] ELSE config
           /\ last' = [Idle EXCEPT !.op = "refresh", !.at = now, !.token = tok,
                                   !.minted = r,
                                   !.gate = [NoGate EXCEPT !.response = h.response]]
    /\ UNCHANGED now

\* POST refresh: refresh_token_handler on a body holding tok.  The client
\* replaces the token it sent by the one it got; lineage remembers both.
Refresh(tok) ==
    /\ last = Idle
    /\ LET r == refresh_token(tok, config, now)
           h == refresh_token_handler(tok, config, now)
       IN  /\ r.ok => Cardinality(lineage \cup {<<tok, r.token>>}) <= MaxRefreshes
           /\ issued' = IF r.ok THEN (issued \ {tok}) \cup {r.token} ELSE issued
           /\ lineage' = IF r.ok THEN lineage \cup {<<tok, r.token>>} ELSE lineage
           /\ last' = [Idle EXCEPT !.op = "refresh", !.at = now, !.token = tok,
                                   !.minted = r,
                                   !.gate = [NoGate EXCEPT !.response = h.response]]
    /\ UNCHANGED <<now, config>>

\* a call of verify_token
Verify(tok) ==
    /\ last = Idle
    /\ last' = [Idle EXCEPT !.op = "verify", !.at = now, !.token = tok,
                            !.claims = verify_token(tok, config, now)]
    /\ UNCHANGED <<now, config, issued, lineage>>

\* a call of verify_token_for_refresh
VerifyForRefresh(tok) ==
    /\ last = Idle
    /\ last' = [Idle EXCEPT !.op = "verify_for_refresh", !.at = now, !.token = tok,
                            !.claims = verify_token_for_refresh(tok, config, now)]
    /\ UNCHANGED <<now, config, issued, lineage>>

\* a request to a route behind auth_middleware
AuthGate(h) ==
    /\ last = Idle
    /\ last' = [Idle EXCEPT !.op = "auth", !.at = now, !.header = h,
                            !.gate = auth_middleware(h, config, now)]
    /\ UNCHANGED <<now, config, issued, lineage>>

\* a request to a route behind admin_middleware
AdminGate(h) ==
    /\ last = Idle
    /\ last' = [Idle EXCEPT !.op = "admin", !.at = now, !.header = h,
                            !.gate = admin_middleware(h, config, now)]
    /\ UNCHANGED <<now, config, issued, lineage>>

\* the answer has gone back to the caller
Respond ==
    /\ last # Idle
    /\ last' = Idle
    /\ UNCHANGED <<now, config, issued, lineage>>

\* The clock moves forward, between requests, to an instant next to a
\* boundary of a token the client holds: around exp, around exp + leeway,
\* around exp + refresh window.
BoundaryOffsets ==
    {-1, 0, 1, Leeway, Leeway + 1, RefreshWindow, RefreshWindow + 1}

\* a clock that can also be set back
Advance_any(t) ==
    /\ last = Idle
    /\ t # now
    /\ now' = t
    /\ UNCHANGED <<config, issued, lineage, last>>

Advance(t) ==
    /\ last = Idle
    /\ t > now
    /\ now' = t
    /\ UNCHANGED <<config, issued, lineage, last>>

Tick == \E tk \in issued, o \in BoundaryOffsets : Advance(tk.body.claims.exp + o)

\* issue, verify and refresh
Next ==
    \/ \E user \in UserRows : Login(user)
    \/ \E tok \in Refreshable : Refresh(tok)
    \/ \E tok \in Presentable : Verify(tok)
    \/ \E tok \in Presentable : VerifyForRefresh(tok)
    \/ Tick
    \/ Respond

Spec == Init /\ [][Next]_vars

\* requests through the two access gates
NextGate ==
    \/ \E user \in UserRows : Login(user)
    \/ \E h \in Headers : AuthGate(h)
    \/ \E h \in Headers : AdminGate(h)
    \/ Tick
    \/ Respond

SpecGate == Init /\ [][NextGate]_vars

----------------------------------------------------------------------------
(* Properties *)

Exp(tok) == tok.body.claims.exp
Iat(tok) == tok.body.claims.iat
Role(tok) == tok.body.claims.role

\* a correctly signed token: one a login or a refresh returned
CorrectlySigned(tok) == tok \in Minted

\* C1: verify_token on the token generate_token(user) returned, at the same
\* instant, succeeds and returns Claims with sub = the user's id and
\* role = the user's role.
C1_VerifyOfIssue ==
    \A user \in UserRows :
        (last.op = "verify" /\ last.token = generate_token(user, config, last.at).token)
            => /\ last.claims.ok
               /\ last.claims.claims.sub = UuidToString(user.id)
               /\ last.claims.claims.role = user.role

C1_Witness ==
    /\ last.op = "verify"
    /\ last.claims.ok
    /\ \E user \in UserRows :
          /\ user.role = "teacher"
          /\ last.token = generate_token(user, config, last.at).token

\* C2 (as claimed): verify_token accepts a correctly signed token exactly when
\* now < exp; at every now >= exp, in particular at iat + L + 1, the failure
\* is Expired.
C2_AcceptsOnlyFresh ==
    (last.op = "verify" /\ CorrectlySigned(last.token))
        => /\ last.claims.ok <=> last.at < Exp(last.token)
           /\ last.at >= Exp(last.token) => last.claims.err.msg = "TokenExpired"

\* C3: at every now with exp < now < exp + refresh window, refresh_token on a
\* correctly signed token succeeds and the new exp is greater than the old
\* one; verify_token_for_refresh succeeds at every now < exp.
InsideWindow(tok, t) == Exp(tok) < t /\ t < Exp(tok) + RefreshWindow

C3_RefreshInGrace ==
    /\ (last.op = "refresh" /\ CorrectlySigned(last.token)
          /\ InsideWindow(last.token, last.at))
         => /\ last.minted.ok
            /\ Exp(last.minted.token) > Exp(last.token)
    /\ (last.op = "verify_for_refresh" /\ CorrectlySigned(last.token)
          /\ (last.at < Exp(last.token) \/ InsideWindow(last.token, last.at)))
         => /\ last.claims.ok
            /\ last.claims.claims = last.token.body.claims
    /\ \A tok \in Minted :
         InsideWindow(tok, now)
            => LET r == refresh_token(tok, config, now)
               IN  r.ok /\ Exp(r.token) > Exp(tok)

C3_Witness ==
    /\ last.op = "refresh"
    /\ CorrectlySigned(last.token)
    /\ last.at = Exp(last.token) + Leeway + 1
    /\ last.minted.ok
    /\ last.minted.token \in issued

TamperedForms == UNION { Tampered(t) : t \in Minted }

C5_TamperedIsInvalidSignature ==
    (last.op \in {"verify", "verify_for_refresh"} /\ last.token \in TamperedForms)
        => /\ ~last.claims.ok
           /\ last.claims.err = AppError("BadSignature", "Forbidden")

\* C6: every token reached from a token T by a chain of refreshes carries the
\* sub, username and role of T.
RECURSIVE Reach(_, _)
Reach(R, n) ==
    IF n = 0 THEN R
    ELSE LET S == Reach(R, n - 1)
         IN  S \cup { <<x[1][1], x[2][2]>> : x \in { y \in S \X R : y[1][2] = y[2][1] } }

RefreshChains == Reach(lineage, Cardinality(lineage))

SameGrant(a, b) ==
    /\ a.body.claims.sub = b.body.claims.sub
    /\ a.body.claims.username = b.body.claims.username
    /\ a.body.claims.role = b.body.claims.role

C6_RefreshKeepsGrant ==
    /\ \A p \in RefreshChains : SameGrant(p[1], p[2])
    /\ (last.op = "refresh" /\ last.minted.ok)
         => SameGrant(last.token, last.minted.token)

\* a chain of two refreshes of a teacher's token, each giving a new token
C6_Witness ==
    \E p \in lineage, q \in lineage :
        /\ p[2] = q[1]
        /\ p[1] # p[2]
        /\ q[1] # q[2]
        /\ Role(p[1]) = "teacher"
        /\ <<p[1], q[2]>> \in RefreshChains

\* C7: auth_middleware runs the downstream handler exactly when the request
\* has an Authorization header of Bearer form whose token verify_token
\* accepts, with the decoded Claims attached; otherwise it answers with a
\* failure response and the handler does not run.
HasBearerPrefix(h) ==
    h.present /\ h.text /\ Len(h.parts) > 0 /\ h.parts[1] = Lit("Bearer ")

BearerToken(h) == extract_token_from_header(h.parts).token

Failure(msg) == into_response(AppError(msg, "Forbidden"))

C9_MissingVersusMalformed ==
    last.op \in {"auth", "admin"}
        => /\ ~last.header.present
                => last.gate.response = Failure("AuthRequired")
           /\ (last.header.present /\ ~HasBearerPrefix(last.header))
                => last.gate.response = Failure("BadAuthHeader")
           /\ last.header.present
                => last.gate.response # Failure("AuthRequired")

\* C10 (as claimed): with lifetime 60 minutes a teacher's token verifies when
\* issued, with role "teacher"; 61 minutes later verify_token fails with
\* Expired; refresh_token at that instant succeeds and the new token verifies
\* with role "teacher".
C10_EndToEnd ==
    config.expiration = 60
        => \A tok \in Minted :
              Role(tok) = "teacher"
                => /\ (last.op = "verify" /\ last.token = tok /\ last.at = Iat(tok))
                        => last.claims.ok /\ last.claims.claims.role = "teacher"
                   /\ (last.op = "verify" /\ last.token = tok
                         /\ last.at = Iat(tok) + 61 * 60)
                        => /\ ~last.claims.ok
                           /\ last.claims.err.msg = "TokenExpired"
                   /\ (last.op = "refresh" /\ last.token = tok
                         /\ last.at = Iat(tok) + 61 * 60)
                        => /\ last.minted.ok
                           /\ LET v == verify_token(last.minted.token, config, last.at)
                              IN  v.ok /\ v.claims.role = "teacher"

\* C11 (as claimed): every Claims value generate_token or refresh_token mints
\* has exp > iat, for every configured jwt.expiration, 0 included.
C11_ExpAfterIat ==
    /\ \A tok \in Minted : Exp(tok) > Iat(tok)
    /\ (last.op \in {"login", "refresh"} /\ last.minted.ok)
         => Exp(last.minted.token) > Iat(last.minted.token)

----------------------------------------------------------------------------
(* Roles: users whose stored role is any string *)

\* User::create stores the role string of the request as it is: rows with an
\* unknown tag, another letter case and the empty string
OddRoleRows ==
    { [id |-> 3, username |-> "carol", role |-> "guest"],
      [id |-> 4, username |-> "dave", role |-> "Admin"],
      [id |-> 5, username |-> "erin", role |-> "Teacher"],
      [id |-> 6, username |-> "frank", role |-> ""] }

\* the headers of a client that holds a token: a Bearer header of form, with
\* the token or a forgery of it, or no header
RoleHeaders ==
    {NoHeader}
      \cup { TextHeader(<<Lit("Bearer "), Tok(t)>>) : t \in issued }
      \cup { TextHeader(<<Lit("Bearer "), Tok(Forged(t))>>) : t \in issued }

NextRoles ==
    \/ \E user \in UserRows \cup OddRoleRows : Login(user)
    \/ \E h \in RoleHeaders : AdminGate(h)
    \/ \E h \in RoleHeaders : AuthGate(h)
    \/ Tick
    \/ Respond

SpecRoles == Init /\ [][NextRoles]_vars

KnownRoles == {"student", "teacher", "admin"}

\* C12 (as claimed): generate_token returns an error and mints no token for a
\* user whose role is not student, teacher or admin; no minted token carries a
\* role outside that set; an unknown role is never coerced to a known one.
C12_UnknownRoleRejected ==
    /\ (last.op = "login" /\ last.user.role \notin KnownRoles)
          => ~last.minted.ok /\ last.minted.token = NoToken
    /\ \A tok \in Minted : Role(tok) \in KnownRoles
    /\ (last.op = "login" /\ last.minted.ok)
          => Role(last.minted.token) = last.user.role

\* C13: admin_middleware forwards only a request whose verified token has the
\* role "admin" or "teacher", letter for letter; a token with any other role
\* (unknown tag, other letter case, empty, "student") gets the
\* administrator-required failure while verify_token accepts it.
C13_ExactPrivilegedRoles ==
    last.op = "admin"
        => /\ last.gate.forwarded
                => /\ last.gate.attached.role \in {"admin", "teacher"}
                   /\ verify_token(BearerToken(last.header), config, last.at).ok
           /\ \A t \in Minted :
                (/\ last.header = TextHeader(<<Lit("Bearer "), Tok(t)>>)
                 /\ Role(t) \notin {"admin", "teacher"})
                    => /\ ~last.gate.forwarded
                       /\ last.gate.attached = NoClaims
                       /\ last.at <= Exp(t) + Leeway
                            => last.gate.response = Failure("AdminRequired")

\* a live token with role "Admin" (capital A) was refused at the admin gate
C13_Witness ==
    /\ last.op = "admin"
    /\ \E t \in Minted :
          /\ last.header = TextHeader(<<Lit("Bearer "), Tok(t)>>)
          /\ Role(t) = "Admin"
          /\ last.at < Exp(t)
    /\ ~last.gate.forwarded
    /\ last.gate.response = Failure("AdminRequired")

----------------------------------------------------------------------------
(* Frame: requests of several clients on the tokens of one session *)

\* POST refresh by another holder of a token the session has minted, also one
\* that was refreshed before; the token it gets is not followed further
RefreshAgain(tok) ==
    /\ last = Idle
    /\ LET r == refresh_token(tok, config, now)
           h == refresh_token_handler(tok, config, now)
       IN  last' = [Idle EXCEPT !.op = "refresh_again", !.at = now, !.token = tok,
                                !.minted = r,
                                !.gate = [NoGate EXCEPT !.response = h.response]]
    /\ UNCHANGED <<now, config, issued, lineage>>

BearerOf(t) == TextHeader(<<Lit("Bearer "), Tok(t)>>)

NextFrame ==
    \/ \E user \in UserRows : Login(user)
    \/ \E tok \in Refreshable : Refresh(tok)
    \/ \E tok \in Minted : RefreshAgain(tok)
    \/ \E tok \in Minted : Verify(tok)
    \/ \E tok \in Minted : AuthGate(BearerOf(tok))
    \/ Tick
    \/ Respond

SpecFrame == Init /\ [][NextFrame]_vars

\* the tokens of the session that a successful refresh has replaced
Refreshed == { p[1] : p \in { q \in lineage : q[1] # q[2] } }

\* C14: whatever refreshes, verifications and gate checks ran before, also a
\* successful refresh of T itself, verify_token and the gate accept a minted
\* token T while now < exp and refresh_token accepts it while
\* now <= exp + refresh window; whether verify_token accepts T is decided by
\* T's exp and the clock alone.
C14_NoInvalidation ==
    \A t \in Minted :
        /\ (last.op = "verify" /\ last.token = t)
              => /\ last.at < Exp(t) => last.claims.ok
                 /\ last.claims.ok <=> last.at <= Exp(t) + Leeway
                 /\ last.claims.ok => last.claims.claims = t.body.claims
        /\ (last.op = "auth" /\ last.header = BearerOf(t))
              => /\ last.at < Exp(t) => last.gate.forwarded
                 /\ last.gate.forwarded <=> last.at <= Exp(t) + Leeway
        /\ (last.op \in {"refresh", "refresh_again"} /\ last.token = t)
              => last.minted.ok <=> last.at <= Exp(t) + RefreshWindow

\* a token that a refresh had already replaced was refreshed once more, with
\* success, after its own expiry
C14_Witness ==
    /\ last.op = "refresh_again"
    /\ last.token \in Refreshed
    /\ last.at > Exp(last.token)
    /\ last.minted.ok

----------------------------------------------------------------------------
(* The refresh endpoint *)

\* the response of a request refused for want of authorization: what
\* AppErrorType::Forbidden becomes
AuthorizationFailure(resp) == resp.status = 403 /\ resp.code = "Forbidden"

\* C16 (as claimed): refresh_token_handler answers with a body holding the
\* one new token when refresh_token succeeds; for every other token (Dead,
\* wrongly signed, unparseable) it answers with an authorization-failure
\* response and no token.
C16_RefreshHandlerAnswers ==
    last.op = "refresh"
        => LET h == refresh_token_handler(last.token, config, last.at)
           IN  /\ last.gate.response = h.response
               /\ last.minted.ok
                    => /\ h.ok
                       /\ h.token = last.minted.token
                       /\ h.token # NoToken
                       /\ h.response = NoResponse
               /\ ~last.minted.ok
                    => /\ ~h.ok
                       /\ h.token = NoToken
                       /\ AuthorizationFailure(h.response)

----------------------------------------------------------------------------
(* Concurrent requests on one token.  A handler decides without a suspension
   point and shares only CONFIG and the clock with the others, so a handler is
   one step; SpecFrame takes the handlers of several holders of a token
   (Refresh, RefreshAgain, AuthGate, Verify) and the clock in every order. *)

----------------------------------------------------------------------------
(* Start-up: the CONFIG cell and main *)

\* static CONFIG = OnceCell::new(): the cell with nothing stored
EmptyCell == [secret |-> "", expiration |-> 0, overflow_checks |-> TRUE]

\* the configurations main can load
BootConfigs ==
    { [secret |-> Secret, expiration |-> e, overflow_checks |-> TRUE] :
        e \in ExpirationChoices }

\* a configuration a later init_config could bring
LaterConfigs ==
    BootConfigs \cup { [secret |-> OtherKey, expiration |-> 60, overflow_checks |-> TRUE] }

\* an init_config that stores whatever it is given
init_config_replace(cell, cfg) == [ok |-> TRUE, cell |-> cfg]

\* init_config(config): CONFIG.set(config).expect(..); set refuses a full cell
\* and expect panics
init_config(cell, cfg) ==
    IF cell = EmptyCell THEN [ok |-> TRUE, cell |-> cfg]
    ELSE [ok |-> FALSE, cell |-> cell]

\* get_config(): CONFIG.get().expect(..); panics on the empty cell
get_config(cell) ==
    IF cell = EmptyCell THEN [ok |-> FALSE, config |-> EmptyCell]
    ELSE [ok |-> TRUE, config |-> cell]

\* the process has started, main has not yet reached init_config
Booting == [Idle EXCEPT !.op = "boot"]

\* the process is gone: a panic, or main returned an error
Stopped(l) ==
    \/ l.op \in {"init_config", "get_config"} /\ ~l.claims.ok
    \/ l.op = "exit"

InitBoot ==
    /\ now = StartTime
    /\ config = EmptyCell
    /\ issued = {}
    /\ lineage = {}
    /\ last = Booting

\* main: load the configuration, init_config, then the pool, the routes and
\* axum::serve (up), or an error on the way and main returns (~up)
MainInit(cfg, up) ==
    /\ last = Booting
    /\ LET r == init_config(config, cfg)
       IN  /\ config' = r.cell
           /\ last' = IF ~r.ok
                      THEN [Idle EXCEPT !.op = "init_config",
                               !.claims = ClaimsFail(AppError("ConfigAlreadyInitialized", "Panic"))]
                      ELSE IF up THEN Idle ELSE [Idle EXCEPT !.op = "exit"]
    /\ UNCHANGED <<now, issued, lineage>>

\* a call of init_config while the server runs
InitAgain(cfg) ==
    /\ last = Idle
    /\ LET r == init_config(config, cfg)
       IN  /\ config' = r.cell
           /\ last' = [Idle EXCEPT !.op = "init_config", !.at = now,
                          !.claims = IF r.ok THEN ClaimsOk(NoClaims)
                                     ELSE ClaimsFail(AppError("ConfigAlreadyInitialized", "Panic"))]
    /\ UNCHANGED <<now, issued, lineage>>

\* a call of get_config, before main's init_config or while the server runs
GetConfig ==
    /\ last \in {Booting, Idle}
    /\ LET r == get_config(config)
       IN  last' = [Idle EXCEPT !.op = "get_config", !.at = now,
                       !.claims = IF r.ok THEN ClaimsOk(NoClaims)
                                  ELSE ClaimsFail(AppError("ConfigNotInitialized", "Panic"))]
    /\ UNCHANGED <<now, config, issued, lineage>>

\* the answer has gone back; nothing follows a panic or the end of main
ServeRespond ==
    /\ last # Booting
    /\ ~Stopped(last)
    /\ Respond

NextBoot ==
    \/ \E cfg \in BootConfigs, up \in BOOLEAN : MainInit(cfg, up)
    \/ \E cfg \in LaterConfigs : InitAgain(cfg)
    \/ GetConfig
    \/ \E user \in UserRows : Login(user)
    \/ \E h \in RoleHeaders : AuthGate(h)
    \/ \E tok \in Refreshable : Refresh(tok)
    \/ Tick
    \/ ServeRespond

SpecBoot == InitBoot /\ [][NextBoot]_vars

\* the operations that serve a request
Served == {"login", "auth", "admin", "refresh", "verify", "verify_for_refresh"}

\* C18: the configuration is stored once, before any request is served, and
\* stays as stored: a request is served only with a full cell; a full cell
\* never changes; an init_config on a full cell fails and leaves the value;
\* get_config on the empty cell fails and gives no configuration.
C18_ConfigSetOnce ==
    [][ /\ config # EmptyCell => config' = config
        /\ last'.op \in Served => config # EmptyCell
        /\ (last'.op = "init_config" /\ config # EmptyCell)
             => ~last'.claims.ok /\ config' = config
        /\ (last'.op = "get_config" /\ config = EmptyCell)
             => /\ ~last'.claims.ok
                /\ ~get_config(config).ok
                /\ get_config(config).config \notin BootConfigs
        /\ (last'.op = "get_config" /\ config # EmptyCell)
             => last'.claims.ok /\ get_config(config).config = config
      ]_vars

\* after a login was served, an init_config with another secret failed and
\* the stored secret is still the one main stored
C18_Witness ==
    /\ last.op = "init_config"
    /\ ~last.claims.ok
    /\ issued # {}
    /\ config \in BootConfigs

----------------------------------------------------------------------------
(* Login: the user store and login_user *)

\* a bcrypt hash: of a password, or a string that is no hash
bcrypt_hash(pw) == [valid |-> TRUE, of |-> pw]
BrokenHash == [valid |-> FALSE, of |-> ""]

\* bcrypt::verify(password, hash)
bcrypt_verify(pw, hash) ==
    IF hash.valid THEN [ok |-> TRUE, result |-> hash.of = pw]
    ELSE [ok |-> FALSE, result |-> FALSE]

\* the users table: the rows of UserRows with email and password_hash, and a
\* row whose password_hash is no bcrypt hash
Accounts ==
    { [id |-> 1, username |-> "alice", role |-> "teacher",
       email |-> "alice@school.test", password_hash |-> bcrypt_hash("pw-alice")],
      [id |-> 2, username |-> "bob", role |-> "student",
       email |-> "bob@school.test", password_hash |-> bcrypt_hash("pw-bob")],
      [id |-> 7, username |-> "gina", role |-> "student",
       email |-> "gina@school.test", password_hash |-> BrokenHash] }

NoAccount ==
    [id |-> 0, username |-> "", role |-> "", email |-> "", password_hash |-> BrokenHash]

\* the id, username and role of a row
Row(a) == [id |-> a.id, username |-> a.username, role |-> a.role]

\* User::find_by_username_or_email: the rows the query can return
\* (WHERE username = $1 OR email = $1, fetch_optional)
find_by_username_or_email(key) ==
    LET hit == { a \in Accounts : a.username = key \/ a.email = key }
    IN  IF hit = {} THEN {NoAccount} ELSE hit

\* User::verify_password
verify_password(user, password) ==
    LET r == bcrypt_verify(password, user.password_hash)
    IN  IF r.ok THEN r.result ELSE FALSE

\* a login that does not look at the password
User_login_any_password(found, req) ==
    IF ~req.db_up THEN [ok |-> FALSE, some |-> FALSE, user |-> NoAccount]
    ELSE IF found # NoAccount THEN [ok |-> TRUE, some |-> TRUE, user |-> found]
    ELSE [ok |-> TRUE, some |-> FALSE, user |-> NoAccount]

\* User::login(pool, req), found being what the query returned
User_login(found, req) ==
    IF ~req.db_up THEN [ok |-> FALSE, some |-> FALSE, user |-> NoAccount]
    ELSE IF found # NoAccount
         THEN IF verify_password(found, req.password)
              THEN [ok |-> TRUE, some |-> TRUE, user |-> found]
              ELSE [ok |-> TRUE, some |-> FALSE, user |-> NoAccount]
         ELSE [ok |-> TRUE, some |-> FALSE, user |-> NoAccount]

\* login_user: called tells whether generate_token ran
login_user(found, req, cfg, t) ==
    LET l == User_login(found, req)
    IN  IF l.ok /\ l.some
        THEN LET g == generate_token(Row(l.user), cfg, t)
             IN  [called |-> TRUE, user |-> Row(l.user), minted |-> g,
                  response |-> IF g.ok \/ g.err = Panic THEN NoResponse
                               ELSE into_response(g.err)]
        ELSE IF l.ok
        THEN [called |-> FALSE, user |-> NoUser, minted |-> NoTokenResult,
              response |-> into_response(AppError("BadCredentials", "IncorrectLogin"))]
        ELSE [called |-> FALSE, user |-> NoUser, minted |-> NoTokenResult,
              response |-> into_response(AppError("DbError", "Db"))]

\* the login requests of the runs
LoginRequests ==
    [username_or_email : {"alice", "alice@school.test", "bob", "gina", "mallory"},
     password : {"pw-alice", "pw-bob", ""},
     db_up : BOOLEAN]

\* POST login with body req
LoginAttempt(req) ==
    /\ last = Idle
    /\ \E found \in find_by_username_or_email(req.username_or_email) :
          LET r == login_user(found, req, config, now)
          IN  /\ r.minted.ok => issued = {}
              /\ issued' = IF r.minted.ok THEN issued \cup {r.minted.token} ELSE issued
              \* gate.forwarded: generate_token was called
              /\ last' = [Idle EXCEPT !.op = "login_user", !.at = now, !.login = req,
                             !.user = r.user, !.minted = r.minted,
                             !.gate = [NoGate EXCEPT !.response = r.response,
                                                     !.forwarded = r.called]]
    /\ UNCHANGED <<now, config, lineage>>

NextLogin ==
    \/ \E req \in LoginRequests : LoginAttempt(req)
    \/ \E tok \in Minted : Verify(tok)
    \/ Tick
    \/ Respond

SpecLogin == Init /\ [][NextLogin]_vars

\* the accounts a request names and whose password it gives
Matching(req) ==
    { a \in Accounts :
        /\ a.username = req.username_or_email \/ a.email = req.username_or_email
        /\ a.password_hash = bcrypt_hash(req.password) }

\* C19: login_user mints a token only for a request that names a stored user
\* and gives that user's password, and the token is that user's; when the
\* user does not exist or the password does not match, it answers with the
\* IncorrectLogin failure (401), without a token and without a call of
\* generate_token.
C19_LoginMintsOnlyAfterMatch ==
    last.op = "login_user"
        => /\ last.minted.ok
                => /\ last.login.db_up
                   /\ \E a \in Matching(last.login) :
                         /\ last.user = Row(a)
                         /\ last.minted.token.body.claims.sub = UuidToString(a.id)
                         /\ last.minted.token.body.claims.role = a.role
           /\ last.gate.forwarded => Matching(last.login) # {}
           /\ (last.login.db_up /\ Matching(last.login) = {})
                => /\ ~last.gate.forwarded
                   /\ ~last.minted.ok
                   /\ last.minted.token = NoToken
                   /\ last.gate.response
                        = into_response(AppError("BadCredentials", "IncorrectLogin"))
                   /\ last.gate.response.status = 401

\* bob's name with alice's password: refused with 401
C19_Witness ==
    /\ last.op = "login_user"
    /\ last.login.username_or_email = "bob"
    /\ last.login.password = "pw-alice"
    /\ last.login.db_up
    /\ last.gate.response.status = 401
    /\ last.minted.token = NoToken

----------------------------------------------------------------------------
(* Unparseable tokens *)

\* a token string that cannot be parsed: not three segments, or a header or
\* claims segment that does not decode
Unparseable(tok) == tok.segs # 3 \/ ~tok.hdr.parse \/ ~tok.body.parse

\* C20 (as claimed): for a token string that cannot be parsed verify_token and
\* verify_token_for_refresh return the invalid-signature failure, and they
\* return the Crypt failure for no token that fails for what it is.
C20_UnparseableIsInvalidSignature ==
    last.op \in {"verify", "verify_for_refresh"}
        => /\ Unparseable(last.token)
                => /\ ~last.claims.ok
                   /\ last.claims.err = AppError("BadSignature", "Forbidden")
           /\ last.claims.err.types # "Crypt"

----------------------------------------------------------------------------
(* The header's token *)

\* C21 (as claimed): extract_token_from_header returns a token only for a
\* value that starts with "Bearer ", and the token is what is left of the
\* value after removing that one prefix and trimming whitespace; a value
\* without the prefix gives none.
C21_ExtractOnePrefix ==
    (last.op \in {"auth", "admin"} /\ last.header.present /\ last.header.text)
        => LET parts == last.header.parts
               x == extract_token_from_header(parts)
           IN  /\ x.some <=> HasBearerPrefix(last.header)
               /\ x.some => x.token = TokenString(Trim(Tail(parts)))
               /\ ~x.some => x.token = NoToken

----------------------------------------------------------------------------
(* Wide lifetimes: jwt.expiration over the whole range of u64 *)

\* values of the u64 setting: the default, the largest u64, the smallest and
\* the largest i64 after the conversion, and a lifetime that leads beyond the
\* last date of OffsetDateTime
WideExpirations ==
    {60, 2 ^ Width - 1, 2 ^ (Width - 1), 2 ^ (Width - 1) - 1, 2 ^ (Width - 8)}

InitWide ==
    /\ now = StartTime
    /\ config \in { [secret |-> Secret, expiration |-> e, overflow_checks |-> c] :
                        e \in WideExpirations, c \in BOOLEAN }
    /\ issued = {}
    /\ lineage = {}
    /\ last = Idle

NextWide ==
    \/ \E user \in UserRows : Login(user)
    \/ \E tok \in issued : Refresh(tok)
    \/ \E tok \in Minted : Verify(tok)
    \/ Tick
    \/ Respond

SpecWide == InitWide /\ [][NextWide]_vars

\* C22 (as claimed): for every value of the u64 expiration setting,
\* generate_token and refresh_token mint a token with iat = now and
\* exp - iat = 60 * expiration, without wrap-around.
C22_ExpIsNowPlusLifetime ==
    /\ last.op = "login"
         => /\ last.minted.ok
            /\ Iat(last.minted.token) = last.at
            /\ Exp(last.minted.token) - Iat(last.minted.token) = 60 * config.expiration
    /\ (last.op = "refresh" /\ verify_token_for_refresh(last.token, config, last.at).ok)
         => /\ last.minted.ok
            /\ Iat(last.minted.token) = last.at
            /\ Exp(last.minted.token) - Iat(last.minted.token) = 60 * config.expiration

----------------------------------------------------------------------------
(* The order of the checks in admin_middleware *)

\* C23: admin_middleware validates the token before it looks at the role: no
\* header gives the authentication-required failure, an expired token the
\* expired failure and a wrongly signed token the signature failure, whatever
\* role the token names; the administrator-required failure is given only
\* for a token that verify_token accepts.
C23_ValidationBeforeRole ==
    last.op = "admin"
        => /\ ~last.header.present
                => last.gate.response = Failure("AuthRequired")
           /\ \A t \in Minted :
                /\ (last.header = BearerOf(t) /\ last.at > Exp(t) + Leeway)
                      => last.gate.response = Failure("TokenExpired")
                /\ last.header = BearerOf(Forged(t))
                      => last.gate.response = Failure("BadSignature")
           /\ last.gate.response = Failure("AdminRequired")
                => verify_token(BearerToken(last.header), config, last.at).ok

\* an expired token of a student at the admin gate: the expired failure
C23_Witness ==
    /\ last.op = "admin"
    /\ \E t \in Minted :
          /\ last.header = BearerOf(t)
          /\ Role(t) = "student"
          /\ last.at > Exp(t) + Leeway
    /\ last.gate.response = Failure("TokenExpired")

----------------------------------------------------------------------------
(* The error envelope *)

\* the errors the gates and the refresh endpoint raise, one per failure kind:
\* auth.rs:91, :88, :131, :219, :212, :261 and the catch-all arm at :93
FailureKinds ==
    { AppError("BadSignature", "Forbidden"),
      AppError("TokenExpired", "Forbidden"),
      AppError("RefreshWindowOver", "Forbidden"),
      AppError("AuthRequired", "Forbidden"),
      AppError("BadAuthHeader", "Forbidden"),
      AppError("AdminRequired", "Forbidden"),
      AppError("InvalidToken", "Crypt") }

\* the failure kind of an error and of a response
KindOf(e) == IF e.types = "Crypt" THEN "CryptoFault" ELSE e.msg
KindOfResponse(resp) == IF resp.code = "Crypt" THEN "CryptoFault" ELSE resp.message

\* C24 (as claimed): a failure of a gate or of the refresh endpoint is
\* answered in the envelope (code, error, message), and its status and code
\* are those of its kind alone: the response of no other failure kind has the
\* same status and code.
C24_KindHasOwnCode ==
    (last.op \in {"auth", "admin", "refresh"} /\ last.gate.response # NoResponse)
        => LET resp == last.gate.response
           IN  /\ DOMAIN resp = {"status", "code", "error", "message"}
               /\ resp.code # "" /\ resp.error # "" /\ resp.message # ""
               /\ \A e \in FailureKinds :
                     KindOf(e) # KindOfResponse(resp)
                        => <<into_response(e).status, into_response(e).code>>
                              # <<resp.status, resp.code>>

----------------------------------------------------------------------------
(* The route table of api::create_routes *)

Routes ==
    { [group |-> "public", method |-> "POST", path |-> "/users/register", documented |-> "none", layer |-> "none"],
      [group |-> "public", method |-> "POST", path |-> "/users/login", documented |-> "none", layer |-> "none"],
      [group |-> "public", method |-> "POST", path |-> "/auth/refresh", documented |-> "none", layer |-> "none"],
      [group |-> "public", method |-> "GET", path |-> "/students", documented |-> "none", layer |-> "none"],
      [group |-> "public", method |-> "GET", path |-> "homeworks", documented |-> "none", layer |-> "none"],
      [group |-> "public", method |-> "GET", path |-> "courses", documented |-> "none", layer |-> "none"],
      [group |-> "public", method |-> "GET", path |-> "exams", documented |-> "none", layer |-> "none"],
      [group |-> "student", method |-> "POST", path |-> "/students", documented |-> "auth", layer |-> "auth"],
      [group |-> "student", method |-> "GET", path |-> "/students/{id}", documented |-> "auth", layer |-> "auth"],
      [group |-> "student", method |-> "PUT", path |-> "/students/{id}", documented |-> "auth", layer |-> "auth"],
      [group |-> "student", method |-> "DELETE", path |-> "/students/{id}", documented |-> "auth", layer |-> "auth"],
      [group |-> "student", method |-> "GET", path |-> "/students/grade/{grade}", documented |-> "auth", layer |-> "auth"],
      [group |-> "course", method |-> "POST", path |-> "/courses", documented |-> "auth", layer |-> "auth"],
      [group |-> "course", method |-> "GET", path |-> "/courses/{id}", documented |-> "auth", layer |-> "auth"],
      [group |-> "course", method |-> "PUT", path |-> "/courses/{id}", documented |-> "auth", layer |-> "auth"],
      [group |-> "course", method |-> "DELETE", path |-> "/courses/{id}", documented |-> "auth", layer |-> "auth"],
      [group |-> "course", method |-> "GET", path |-> "/courses/search/{keyword}", documented |-> "auth", layer |-> "auth"],
      [group |-> "course", method |-> "POST", path |-> "/course-records", documented |-> "auth", layer |-> "auth"],
      [group |-> "course", method |-> "GET", path |-> "/course-records/{id}", documented |-> "auth", layer |-> "auth"],
      [group |-> "course", method |-> "PUT", path |-> "/course-records/{id}", documented |-> "auth", layer |-> "auth"],
      [group |-> "course", method |-> "DELETE", path |-> "/course-records/{id}", documented |-> "auth", layer |-> "auth"],
      [group |-> "course", method |-> "GET", path |-> "/course-records/query", documented |-> "auth", layer |-> "auth"],
      [group |-> "exam", method |-> "POST", path |-> "/exams", documented |-> "auth", layer |-> "auth"],
      [group |-> "exam", method |-> "GET", path |-> "/exams/{id}", documented |-> "auth", layer |-> "auth"],
      [group |-> "exam", method |-> "PUT", path |-> "/exams/{id}", documented |-> "auth", layer |-> "auth"],
      [group |-> "exam", method |-> "DELETE", path |-> "/exams/{id}", documented |-> "auth", layer |-> "auth"],
      [group |-> "exam", method |-> "GET", path |-> "/exams/search/{keyword}", documented |-> "auth", layer |-> "auth"],
      [group |-> "exam", method |-> "POST", path |-> "/exam-records", documented |-> "auth", layer |-> "auth"],
      [group |-> "exam", method |-> "GET", path |-> "/exam-records/{id}", documented |-> "auth", layer |-> "auth"],
      [group |-> "exam", method |-> "PUT", path |-> "/exam-records/{id}", documented |-> "auth", layer |-> "auth"],
      [group |-> "exam", method |-> "DELETE", path |-> "/exam-records/{id}", documented |-> "auth", layer |-> "auth"],
      [group |-> "exam", method |-> "GET", path |-> "/exam-records/query", documented |-> "auth", layer |-> "auth"],
      [group |-> "homework", method |-> "POST", path |-> "/homework", documented |-> "auth", layer |-> "auth"],
      [group |-> "homework", method |-> "GET", path |-> "/homework/{id}", documented |-> "auth", layer |-> "auth"],
      [group |-> "homework", method |-> "PUT", path |-> "/homework/{id}", documented |-> "auth", layer |-> "auth"],
      [group |-> "homework", method |-> "DELETE", path |-> "/homework/{id}", documented |-> "auth", layer |-> "auth"],
      [group |-> "homework", method |-> "GET", path |-> "/homework/query", documented |-> "auth", layer |-> "auth"],
      [group |-> "homework", method |-> "PUT", path |-> "/homework/{id}/grade", documented |-> "auth", layer |-> "auth"],
      [group |-> "activity", method |-> "GET", path |-> "/activities", documented |-> "auth", layer |-> "none"],
      [group |-> "activity", method |-> "POST", path |-> "/activities", documented |-> "auth", layer |-> "none"] }

\* a request to a route: the middleware layered on the route's group decides;
\* a route without layer runs its handler at once, without Claims
Request(route, h) ==
    /\ last = Idle
    /\ last' = [Idle EXCEPT !.op = "request", !.at = now, !.route = route,
                   !.header = h,
                   !.gate = CASE route.layer = "auth" -> auth_middleware(h, config, now)
                              [] route.layer = "admin" -> admin_middleware(h, config, now)
                              [] OTHER -> Forward(NoClaims)]
    /\ UNCHANGED <<now, config, issued, lineage>>

NextRoutes ==
    \/ \E user \in UserRows : Login(user)
    \/ \E route \in Routes, h \in RoleHeaders : Request(route, h)
    \/ Tick
    \/ Respond

SpecRoutes == Init /\ [][NextRoutes]_vars

\* C25 (as claimed): the handler of a route whose group is documented as
\* requiring user authentication (students, courses, exams, homework,
\* activities) runs only for a request with a Bearer token that verify_token
\* accepts.
C25_DocumentedRoutesGated ==
    (last.op = "request" /\ last.route.documented = "auth" /\ last.gate.forwarded)
        => /\ HasBearerPrefix(last.header)
           /\ verify_token(BearerToken(last.header), config, last.at).ok

----------------------------------------------------------------------------
(* The life of a token under a clock that never goes back *)

\* the tokens a login at the start of a run can give
LoginTokens ==
    { generate_token(u, c, StartTime).token : u \in UserRows, c \in BootConfigs }

RefreshOps == {"refresh", "refresh_again"}

\* the holders of the tokens of a session verify and refresh them, with the
\* tokens as they got them
NextLife ==
    \/ \E user \in UserRows : Login(user)
    \/ \E tok \in issued : Refresh(tok)
    \/ \E tok \in Minted : RefreshAgain(tok)
    \/ \E tok \in Minted : Verify(tok)
    \/ Tick
    \/ Respond

SpecLife == Init /\ [][NextLife]_vars

\* C26: once verify_token has answered Expired for a token, no later
\* verify_token on that token succeeds; once refresh_token has answered
\* window-exceeded for a token, no later refresh_token on it succeeds.
C26_NoWayBack ==
    \A tok \in LoginTokens :
        /\ []((/\ last.op = "verify"
               /\ last.token = tok
               /\ last.claims.err.msg = "TokenExpired")
                => []((last.op = "verify" /\ last.token = tok) => ~last.claims.ok))
        /\ []((/\ last.op \in RefreshOps
               /\ last.token = tok
               /\ last.minted.err.msg = "RefreshWindowOver")
                => []((last.op \in RefreshOps /\ last.token = tok) => ~last.minted.ok))

\* a token that a refresh had replaced is refused by refresh_token as beyond
\* the window
C26_Witness ==
    /\ last.op = "refresh_again"
    /\ last.token \in LoginTokens \cap Refreshed
    /\ last.minted.err.msg = "RefreshWindowOver"

----------------------------------------------------------------------------
(* Tokens for requests and tokens for refresh *)

\* C27: at every instant a token that verify_token accepts is accepted by
\* verify_token_for_refresh too, with the same Claims; a token that
\* verify_token_for_refresh refuses is refused by verify_token.
C27_VerifiedIsRefreshable ==
    /\ (last.op = "verify" /\ last.claims.ok)
          => verify_token_for_refresh(last.token, config, last.at)
                = ClaimsOk(last.claims.claims)
    /\ (last.op = "verify_for_refresh" /\ ~last.claims.ok)
          => ~verify_token(last.token, config, last.at).ok

\* verify_token accepted a token after its exp, inside the leeway
C27_Witness ==
    /\ last.op = "verify"
    /\ last.claims.ok
    /\ last.at > Exp(last.token)

----------------------------------------------------------------------------
(* Where accepted tokens come from *)

\* C28: a token that verify_token or verify_token_for_refresh accepts was
\* returned by a login or a refresh of the run and is signed with the
\* configured secret; a token that refresh_token returned comes from a minted
\* token whose refresh window was still open at the instant of the refresh.
C28_AcceptedWereMinted ==
    /\ (last.op \in {"verify", "verify_for_refresh"} /\ last.claims.ok)
          => /\ last.token \in Minted
             /\ last.token.sig.key = config.secret
             /\ last.claims.claims = last.token.body.claims
    /\ \A p \in lineage :
          /\ p[1] \in Minted
          /\ p[2].sig.key = config.secret
          /\ Iat(p[2]) <= Exp(p[1]) + RefreshWindow
    /\ (last.op = "refresh" /\ last.minted.ok)
          => /\ last.token \in Minted
             /\ last.at <= Exp(last.token) + RefreshWindow

\* a token that a refresh returned, for an old token past its exp, is accepted
C28_Witness ==
    /\ last.op = "verify"
    /\ last.claims.ok
    /\ \E p \in lineage :
          /\ p[2] = last.token
          /\ p[1] # p[2]
          /\ Iat(p[2]) > Exp(p[1])

----------------------------------------------------------------------------
(* The two gates side by side *)

\* C29: for every request and instant admin_middleware gives what
\* auth_middleware gives (the same failure, or the handler with the same
\* Claims), except that it answers administrator-required where
\* auth_middleware forwards Claims whose role is neither "admin" nor
\* "teacher"; so a request that admin_middleware forwards is forwarded by
\* auth_middleware.
C29_AdminGateRefinesAuthGate ==
    last.op \in {"auth", "admin"}
        => LET a == auth_middleware(last.header, config, last.at)
               b == admin_middleware(last.header, config, last.at)
           IN  /\ last.gate = IF last.op = "auth" THEN a ELSE b
               /\ IF a.forwarded /\ a.attached.role \notin {"admin", "teacher"}
                  THEN b = Reject(AppError("AdminRequired", "Forbidden"))
                  ELSE b = a
               /\ b.forwarded => a.forwarded

\* the admin gate let an admin's token through
C29_Witness ==
    /\ last.op = "admin"
    /\ last.gate.forwarded
    /\ last.gate.attached.role = "admin"
    /\ auth_middleware(last.header, config, last.at).forwarded

----------------------------------------------------------------------------
(* The window test of verify_token_for_refresh over the range of u64 *)

\* values of exp and of the clock: 0, around the refresh window, the start of
\* the runs, the middle and the end of the range of u64
WideSeconds ==
    {0, 1, RefreshWindow, RefreshWindow + 1, StartTime, StartTime + RefreshWindow + 1,
     2 ^ (Width - 1), 2 ^ Width - 1}

\* correctly signed tokens with these values of exp
WideTokens ==
    { encode([sub |-> "uuid-1", username |-> "alice", role |-> "teacher",
              exp |-> e, iat |-> 0], Secret) : e \in WideSeconds }

InitWindow ==
    /\ now \in WideSeconds
    /\ config \in { [secret |-> Secret, expiration |-> 60, overflow_checks |-> c] :
                        c \in BOOLEAN }
    /\ issued = {}
    /\ lineage = {}
    /\ last = Idle

NextWindow ==
    \/ \E tok \in WideTokens : VerifyForRefresh(tok)
    \/ Respond

SpecWindow == InitWindow /\ [][NextWindow]_vars

\* C30: for every pair of values of exp and now, verify_token_for_refresh
\* subtracts exp from now only when exp < now: it never fails on the
\* subtraction, and it refuses the token exactly when now is more than the
\* refresh window after exp.
C30_NoUnderflow ==
    (last.op = "verify_for_refresh" /\ last.token \in WideTokens)
        => /\ last.claims.err # Panic
           /\ ~beyond_window(Exp(last.token), last.at, config.overflow_checks).panic
           /\ last.claims.ok <=> last.at <= Exp(last.token) + RefreshWindow
           /\ ~last.claims.ok => last.claims.err.msg = "RefreshWindowOver"

\* a token whose exp is the largest u64, at clock 0, in a build that checks
\* overflow: accepted
C30_Witness ==
    /\ last.op = "verify_for_refresh"
    /\ Exp(last.token) = 2 ^ Width - 1
    /\ last.at = 0
    /\ config.overflow_checks
    /\ last.claims.ok

====
